---- MODULE Spec2Model ----
(***************************************************************************)
(* A model of clouddns (main.go): a dynamic-DNS client that resolves the   *)
(* public address of each address family once per run and, per record,     *)
(* compares it with a cached value, updates the provider record and       *)
(* writes the cache.  The README describes webhook notifications; main.go  *)
(* has none: the "webhooks" key of a record is dropped when it is decoded. *)
(*                                                                         *)
(* Strings that the program inspects character by character (names,        *)
(* addresses, file contents, file names) are sequences of one-character    *)
(* strings.  Opaque strings (tokens, zone ids, URLs) are TLA+ strings.     *)
(***************************************************************************)
EXTENDS Integers, Sequences, FiniteSets, TLC

\* ------------------------------------------------------------------------
\* Bounds of the model
\* ------------------------------------------------------------------------
MaxRecords == 2      \* records per family in a configuration
MaxRuns == 3         \* runs of the process started by the scheduler
MaxLen == 4          \* length of the strings given to sanitizeString
MaxKeyLen == 2       \* length of the names and identifiers of cache keys

\* ------------------------------------------------------------------------
\* strings.TrimSpace
\* ------------------------------------------------------------------------
\* The characters of unicode.IsSpace; those without an escape in a string
\* are written by their code point.
WhiteSpace ==
    {" ", "\n", "\t", "\r", "\f", "U+0B", "U+85", "U+A0", "U+1680",
     "U+2000", "U+2001", "U+2002", "U+2003", "U+2004", "U+2005", "U+2006",
     "U+2007", "U+2008", "U+2009", "U+200A", "U+2028", "U+2029", "U+202F",
     "U+205F", "U+3000"}

RECURSIVE TrimLeft(_)
TrimLeft(s) ==
    IF s # <<>> /\ Head(s) \in WhiteSpace THEN TrimLeft(Tail(s)) ELSE s

RECURSIVE TrimRight(_)
TrimRight(s) ==
    IF s # <<>> /\ s[Len(s)] \in WhiteSpace
    THEN TrimRight(SubSeq(s, 1, Len(s) - 1))
    ELSE s

TrimSpace(s) == TrimRight(TrimLeft(s))

\* ------------------------------------------------------------------------
\* sanitizeString and generateCacheFilename
\* ------------------------------------------------------------------------
RetainedChars ==
    {"a","b","c","d","e","f","g","h","i","j","k","l","m",
     "n","o","p","q","r","s","t","u","v","w","x","y","z",
     "A","B","C","D","E","F","G","H","I","J","K","L","M",
     "N","O","P","Q","R","S","T","U","V","W","X","Y","Z",
     "0","1","2","3","4","5","6","7","8","9","-"}

\* Variant: every other character becomes an underscore, runs are not
\* collapsed.
RECURSIVE sanitizeLoop_NoCollapse(_, _, _)
sanitizeLoop_NoCollapse(rest, sb, lastWasUnderscore) ==
    IF rest = <<>> THEN sb
    ELSE IF Head(rest) \in RetainedChars
         THEN sanitizeLoop_NoCollapse(Tail(rest), Append(sb, Head(rest)), FALSE)
         ELSE sanitizeLoop_NoCollapse(Tail(rest), Append(sb, "_"), TRUE)

\* Variant: the flag is cleared when a character is skipped.
RECURSIVE sanitizeLoop_ResetOnSkip(_, _, _)
sanitizeLoop_ResetOnSkip(rest, sb, lastWasUnderscore) ==
    IF rest = <<>> THEN sb
    ELSE IF Head(rest) \in RetainedChars
         THEN sanitizeLoop_ResetOnSkip(Tail(rest), Append(sb, Head(rest)), FALSE)
         ELSE IF lastWasUnderscore
              THEN sanitizeLoop_ResetOnSkip(Tail(rest), sb, FALSE)
              ELSE sanitizeLoop_ResetOnSkip(Tail(rest), Append(sb, "_"), TRUE)

RECURSIVE sanitizeLoop(_, _, _)
sanitizeLoop(rest, sb, lastWasUnderscore) ==
    IF rest = <<>> THEN sb
    ELSE IF Head(rest) \in RetainedChars
         THEN sanitizeLoop(Tail(rest), Append(sb, Head(rest)), FALSE)
         ELSE IF lastWasUnderscore
              THEN sanitizeLoop(Tail(rest), sb, TRUE)
              ELSE sanitizeLoop(Tail(rest), Append(sb, "_"), TRUE)

sanitizeString(input) == sanitizeLoop(input, <<>>, FALSE)

\* Variant: the record type is left out of the key.
generateCacheFilename_NoType(record, recordType) ==
    <<"c","a","c","h","e","d","_","i","p","_">>
        \o sanitizeString(record.Name)
        \o <<"_">> \o record.RecordID \o <<".","t","x","t">>

\* Variant: the record identifier is left out of the key.
generateCacheFilename_NoID(record, recordType) ==
    <<"c","a","c","h","e","d","_","i","p","_">>
        \o recordType \o <<"_">> \o sanitizeString(record.Name)
        \o <<".","t","x","t">>

generateCacheFilename(record, recordType) ==
    <<"c","a","c","h","e","d","_","i","p","_">>
        \o recordType \o <<"_">> \o sanitizeString(record.Name)
        \o <<"_">> \o record.RecordID \o <<".","t","x","t">>

\* ------------------------------------------------------------------------
\* Configuration: DNSRecord, DNSConfiguration and the environment
\* ------------------------------------------------------------------------
Families == {"A", "AAAA"}

\* The "type" tag of a family as the characters that enter the file name.
recordType(f) == IF f = "A" THEN <<"A">> ELSE <<"A","A","A","A">>

RecA1 == [Name |-> <<"a",".","b">>, APIToken |-> "tokA1", ZoneID |-> "zone1",
          RecordID |-> <<"i","1">>]
RecA2 == [Name |-> <<"c">>, APIToken |-> "tokA2", ZoneID |-> "zone2",
          RecordID |-> <<"i","2">>]
Rec61 == [Name |-> <<"a",".","b">>, APIToken |-> "tok61", ZoneID |-> "zone1",
          RecordID |-> <<"i","1">>]
Rec62 == [Name |-> <<"d","-","e",".","f">>, APIToken |-> "tok62",
          ZoneID |-> "zone2", RecordID |-> <<"i","2">>]

\* An object of the "a" or "aaaa" array of the configuration file, with the
\* keys of the struct tags and the "webhooks" array of the README's format
\* (empty when the key is absent).
JsonRecord(rec, urls) ==
    [name |-> rec.Name, api_token |-> rec.APIToken, zone_id |-> rec.ZoneID,
     record_id |-> rec.RecordID, webhooks |-> urls]

\* json.Unmarshal into a DNSRecord: a key without a field is dropped.
Unmarshal(obj) ==
    [Name |-> obj.name, APIToken |-> obj.api_token, ZoneID |-> obj.zone_id,
     RecordID |-> obj.record_id]

RECURSIVE UnmarshalAll(_)
UnmarshalAll(list) ==
    IF list = <<>> THEN <<>>
    ELSE <<Unmarshal(Head(list))>> \o UnmarshalAll(Tail(list))

JsonA1 == JsonRecord(RecA1, <<"https://hook.example/a1">>)
JsonA2 == JsonRecord(RecA2, <<>>)
Json61 == JsonRecord(Rec61, <<"https://discord.com/api/webhooks/x">>)
Json62 == JsonRecord(Rec62, <<"https://discord.com/api/webhooks/y",
                              "https://hook.example/62">>)

\* What DDNS_CONFIG_PATH leads to: status "unset" (the variable is not set),
\* "unreadable" (os.ReadFile fails), "garbage" (not JSON) or "json" with the
\* two record lists of the file.
ConfigFiles ==
    {[status |-> "unset", A |-> <<>>, AAAA |-> <<>>],
     [status |-> "unreadable", A |-> <<>>, AAAA |-> <<>>],
     [status |-> "garbage", A |-> <<>>, AAAA |-> <<>>],
     [status |-> "json", A |-> <<>>, AAAA |-> <<>>],
     [status |-> "json", A |-> <<JsonA1, JsonA2>>, AAAA |-> <<>>],
     [status |-> "json", A |-> <<JsonA1>>, AAAA |-> <<Json61>>],
     [status |-> "json", A |-> <<>>, AAAA |-> <<Json62>>]}

EmptyConfiguration == [A |-> <<>>, AAAA |-> <<>>]

TaskIds == Families \X (1..MaxRecords)

\* Variant: the check for two empty lists is missing.
loadDNSConfiguration_NoEmptyCheck(cf) ==
    IF cf.status # "json"
    THEN [configuration |-> EmptyConfiguration, err |-> TRUE]
    ELSE [configuration |-> [A |-> UnmarshalAll(cf.A),
                                 AAAA |-> UnmarshalAll(cf.AAAA)], err |-> FALSE]

\* loadDNSConfiguration: the configuration and whether an error is returned
loadDNSConfiguration(cf) ==
    IF cf.status # "json"
    THEN [configuration |-> EmptyConfiguration, err |-> TRUE]
    ELSE IF Len(cf.A) = 0 /\ Len(cf.AAAA) = 0
         THEN [configuration |-> [A |-> UnmarshalAll(cf.A),
                                 AAAA |-> UnmarshalAll(cf.AAAA)], err |-> TRUE]
         ELSE [configuration |-> [A |-> UnmarshalAll(cf.A),
                                 AAAA |-> UnmarshalAll(cf.AAAA)], err |-> FALSE]

\* getCachePath: the value of DDNS_CACHE_PATH
CachePaths == {"", "/cache"}

getCachePath(env) == env


\* ------------------------------------------------------------------------
\* The cache directory
\* ------------------------------------------------------------------------
\* A directory entry: absent, or a file with its bytes.
NoFile == [exists |-> FALSE, data |-> <<>>]
File(d) == [exists |-> TRUE, data |-> d]

AllRecordTasks ==
    {<<"A", RecA1>>, <<"A", RecA2>>, <<"AAAA", Rec61>>, <<"AAAA", Rec62>>}

FileNames == {generateCacheFilename(p[2], recordType(p[1])) : p \in AllRecordTasks}

\* The cache files of the records of a configuration file
ConfiguredFiles(cf) ==
    {generateCacheFilename(Unmarshal(cf[f][i]), recordType(f)) :
        <<f, i>> \in {t \in Families \X (1..MaxRecords) : t[2] <= Len(cf[t[1]])}}

\* Contents a cache file may have when the program starts: absent, an
\* address written by an earlier run, or one edited to end in a newline.
InitContents == {NoFile, File(<<"1">>), File(<<"1", "\n">>)}

\* readCachedIP(basePath, fileName): fs is the directory, ioErr tells whether
\* os.ReadFile fails with an error other than "does not exist".
readCachedIP(basePath, fileName, fs, ioErr) ==
    IF basePath = "" THEN [val |-> <<>>, err |-> FALSE]
    ELSE IF ioErr THEN [val |-> <<>>, err |-> TRUE]
    ELSE IF ~fs[fileName].exists THEN [val |-> <<>>, err |-> FALSE]
    ELSE [val |-> TrimSpace(fs[fileName].data), err |-> FALSE]

\* os.WriteFile opens the file (creating or truncating it), writes the
\* bytes and closes it; other goroutines run in between.
\* Outcomes of the open: "ok"; "noopen" (nothing is changed).
OpenOutcomes == {"ok", "noopen"}

\* Outcomes of the write and close: "ok"; "nowrite" (the write fails, no
\* byte is written); "noclose" (the bytes are written, Close reports an
\* error).
WriteOutcomes == {"ok", "nowrite", "noclose"}

\* writeCachedIP up to the open of the file
writeCachedIP(basePath, fileName, fs, outcome) ==
    IF basePath = "" THEN [fs |-> fs, err |-> TRUE]
    ELSE IF outcome = "noopen" THEN [fs |-> fs, err |-> TRUE]
    ELSE [fs |-> [fs EXCEPT ![fileName] = File(<<>>)], err |-> FALSE]

\* writeCachedIP from the write on
writeFile(fileName, content, fs, outcome) ==
    IF outcome = "nowrite" THEN [fs |-> fs, err |-> TRUE]
    ELSE [fs |-> [fs EXCEPT ![fileName] = File(content)],
          err |-> (outcome = "noclose")]

\* ------------------------------------------------------------------------
\* getCurrentIP: bodies the discovery service may answer with status 200
\* ------------------------------------------------------------------------
Bodies == {<<>>, <<"1">>, <<"U+A0", "2", "\n">>}

getCurrentIP(body) == TrimSpace(body)

\* updateCloudflareRecord: the request that is sent
updateRequest(record, rtype, address) ==
    [zone |-> record.ZoneID, id |-> record.RecordID, token |-> record.APIToken,
     type |-> rtype, name |-> record.Name, content |-> address, ttl |-> 1]


\* ------------------------------------------------------------------------
\* State
\* ------------------------------------------------------------------------
VARIABLES
    configFile,     \* what DDNS_CONFIG_PATH leads to (environment)
    cachePathEnv,   \* DDNS_CACHE_PATH (environment)
    files,          \* the cache directory: file name -> entry
    files0,         \* the cache directory when the run started
    mainPC,         \* position of run(): load, spawnA, spawnAAAA, wait, exit
    result,         \* what run() returned: "none", "ok" (nil), "error"
    configuration,  \* run's local: the loaded DNSConfiguration
    baseCachePath,  \* run's local: getCachePath()
    gpc,            \* per family: position of syncRecordsToIPAddress: none,
                    \* resolve, spawn (loop and wg.Wait), failed, done
    currentIP,      \* per family: the address getCurrentIP returned
    resolves,       \* per family: outcomes of the requests sent to the
                    \* discovery service, in order
    spawned,        \* per family: how many goroutines the loop has started
    tpc,            \* per task: position of syncRecord
    cachedIP,       \* per task: syncRecord's local cachedIP
    trace,          \* per task: the calls it made, in order
    runNo,          \* number of the current run of the process
    prev,           \* per task: what the previous run did for its record
    purePC,         \* position of the harness of the pure functions
    sanIn,          \* sanitizeString: the input,
    sanOut,         \*   its result
    sanAgain,       \*   and the result of sanitizing the result
    keyA,           \* generateCacheFilename: two records of one run with
    keyB,           \*   their families,
    fileA,          \*   and the file names of the two
    fileB

vars == <<configFile, cachePathEnv, files, files0, mainPC, result,
          configuration, baseCachePath, gpc, currentIP, resolves, spawned,
          tpc, cachedIP, trace, runNo, prev,
          purePC, sanIn, sanOut, sanAgain, keyA, keyB, fileA, fileB>>

envVars == <<configFile, cachePathEnv>>
runVars == <<mainPC, result, configuration, baseCachePath>>
groupVars == <<gpc, currentIP, resolves, spawned>>
taskVars == <<tpc, cachedIP, trace>>
schedVars == <<runNo, prev>>
pureVars == <<purePC, sanIn, sanOut, sanAgain, keyA, keyB, fileA, fileB>>

Records(f) == configuration[f]
RecordOf(t) == configuration[t[1]][t[2]]
Tasks == {t \in TaskIds : t[2] <= Len(configuration[t[1]])}
TasksOf(f) == {t \in Tasks : t[1] = f}
FileOf(t) == generateCacheFilename(RecordOf(t), recordType(t[1]))

\* Events of a task's trace
NoRequest ==
    [zone |-> "", id |-> <<>>, token |-> "", type |-> "", name |-> <<>>,
     content |-> <<>>, ttl |-> 0]
ReadEvent(ok) ==
    [op |-> "read", ok |-> ok, content |-> <<>>, req |-> NoRequest]
PutEvent(req, ok) ==
    [op |-> "put", ok |-> ok, content |-> req.content, req |-> req]
WriteEvent(content, ok) ==
    [op |-> "write", ok |-> ok, content |-> content, req |-> NoRequest]

\* ------------------------------------------------------------------------
\* Observations on a task's trace
\* ------------------------------------------------------------------------
Events(t, op) == {i \in 1..Len(trace[t]) : trace[t][i].op = op}
PutOK(t) == \E i \in Events(t, "put") : trace[t][i].ok
PutFailed(t) == \E i \in Events(t, "put") : ~trace[t][i].ok
ReadFailed(t) == \E i \in Events(t, "read") : ~trace[t][i].ok
WriteOK(t) == \E i \in Events(t, "write") : trace[t][i].ok
Attempted(t) == Events(t, "webhook") # {}
Compared(t) == tpc[t] \notin {"none", "read"}
OwnFile(t) == \A u \in Tasks \ {t} : FileOf(u) # FileOf(t)
RunOver == mainPC = "exit" /\ result = "ok"
ResolveFailed(f) == \E i \in 1..Len(resolves[f]) : resolves[f][i] = "err"

\* ------------------------------------------------------------------------
\* Initial states
\* ------------------------------------------------------------------------
\* What the previous run did for a record, when there was none
NoPrev == [putOK |-> FALSE, putFailed |-> FALSE, writeOK |-> FALSE,
           readFailed |-> FALSE, ip |-> <<>>, file0 |-> NoFile, fails |-> 0]

\* A record with its family, as generateCacheFilename gets them
NoKey == [family |-> "A", Name |-> <<>>, RecordID |-> <<>>]

\* The harness of the pure functions is not in use.
PureOff ==
    /\ purePC = "off"
    /\ sanIn = <<>> /\ sanOut = <<>> /\ sanAgain = <<>>
    /\ keyA = NoKey /\ keyB = NoKey
    /\ fileA = <<>> /\ fileB = <<>>

Init ==
    /\ PureOff
    /\ runNo = 1
    /\ prev = [t \in TaskIds |-> NoPrev]
    /\ configFile \in ConfigFiles
    /\ cachePathEnv \in CachePaths
    /\ files \in [FileNames -> InitContents]
    /\ \A n \in FileNames :
         (cachePathEnv = "" \/ n \notin ConfiguredFiles(configFile))
            => files[n] = NoFile
    /\ files0 = files
    /\ mainPC = "load"
    /\ result = "none"
    /\ configuration = EmptyConfiguration
    /\ baseCachePath = ""
    /\ gpc = [f \in Families |-> "none"]
    /\ currentIP = [f \in Families |-> <<>>]
    /\ resolves = [f \in Families |-> <<>>]
    /\ spawned = [f \in Families |-> 0]
    /\ tpc = [t \in TaskIds |-> "none"]
    /\ cachedIP = [t \in TaskIds |-> <<>>]
    /\ trace = [t \in TaskIds |-> <<>>]

\* ------------------------------------------------------------------------
\* run
\* ------------------------------------------------------------------------
\* getCachePath and loadDNSConfiguration; an error ends run before anything
\* else happens.
RunLoad ==
    /\ mainPC = "load"
    /\ LET l == loadDNSConfiguration(configFile) IN
         /\ baseCachePath' = getCachePath(cachePathEnv)
         /\ IF l.err
            THEN /\ mainPC' = "exit"
                 /\ result' = "error"
                 /\ UNCHANGED configuration
            ELSE /\ mainPC' = "spawnA"
                 /\ configuration' = l.configuration
                 /\ UNCHANGED result
    /\ UNCHANGED <<envVars, schedVars, pureVars, files, files0, groupVars, taskVars>>

\* if a_records > 0 { wg.Add(1); go syncRecordsToIPAddress(A) }
RunSpawnA ==
    /\ mainPC = "spawnA"
    /\ mainPC' = "spawnAAAA"
    /\ gpc' = IF Len(configuration.A) > 0
              THEN [gpc EXCEPT !["A"] = "resolve"] ELSE gpc
    /\ UNCHANGED <<envVars, schedVars, pureVars, files, files0, result, configuration,
                   baseCachePath, currentIP, resolves, spawned, taskVars>>

\* Variant: the AAAA group is started without looking at the record count.
RunSpawnAAAA_Always ==
    /\ mainPC = "spawnAAAA"
    /\ mainPC' = "wait"
    /\ gpc' = [gpc EXCEPT !["AAAA"] = "resolve"]
    /\ UNCHANGED <<envVars, schedVars, pureVars, files, files0, result,
                   configuration, baseCachePath, currentIP, resolves, spawned,
                   taskVars>>

\* if aaaa_records > 0 { wg.Add(1); go syncRecordsToIPAddress(AAAA) }
RunSpawnAAAA ==
    /\ mainPC = "spawnAAAA"
    /\ mainPC' = "wait"
    /\ gpc' = IF Len(configuration.AAAA) > 0
              THEN [gpc EXCEPT !["AAAA"] = "resolve"] ELSE gpc
    /\ UNCHANGED <<envVars, schedVars, pureVars, files, files0, result, configuration,
                   baseCachePath, currentIP, resolves, spawned, taskVars>>

\* Variant: a group that returned on a resolver error never calls wg.Done.
RunWait_DoneOnly ==
    /\ mainPC = "wait"
    /\ \A f \in Families : gpc[f] \in {"none", "done"}
    /\ mainPC' = "exit"
    /\ result' = "ok"
    /\ UNCHANGED <<envVars, schedVars, pureVars, files, files0, configuration,
                   baseCachePath, groupVars, taskVars>>

\* wg.Wait() and return nil
RunWait ==
    /\ mainPC = "wait"
    /\ \A f \in Families : gpc[f] \in {"none", "failed", "done"}
    /\ mainPC' = "exit"
    /\ result' = "ok"
    /\ UNCHANGED <<envVars, schedVars, pureVars, files, files0, configuration,
                   baseCachePath, groupVars, taskVars>>

\* ------------------------------------------------------------------------
\* syncRecordsToIPAddress
\* ------------------------------------------------------------------------
\* Variant: the error branch does not return, the loop runs with an empty
\* address.
ResolveFail_NoReturn(f) ==
    /\ gpc[f] = "resolve"
    /\ resolves' = [resolves EXCEPT ![f] = Append(@, "err")]
    /\ gpc' = [gpc EXCEPT ![f] = "spawn"]
    /\ UNCHANGED <<envVars, schedVars, pureVars, files, files0, runVars, currentIP, spawned,
                   taskVars>>

\* Variant: a resolution failure ends every group, not only its own.
ResolveFail_AbortAll(f) ==
    /\ gpc[f] = "resolve"
    /\ resolves' = [resolves EXCEPT ![f] = Append(@, "err")]
    /\ gpc' = [g \in Families |-> IF gpc[g] = "none" THEN "none" ELSE "failed"]
    /\ UNCHANGED <<envVars, schedVars, pureVars, files, files0, runVars, currentIP, spawned,
                   taskVars>>

\* getCurrentIP fails: log and return.
ResolveFail(f) ==
    /\ gpc[f] = "resolve"
    /\ resolves' = [resolves EXCEPT ![f] = Append(@, "err")]
    /\ gpc' = [gpc EXCEPT ![f] = "failed"]
    /\ UNCHANGED <<envVars, schedVars, pureVars, files, files0, runVars, currentIP, spawned,
                   taskVars>>

\* getCurrentIP succeeds with some body.
ResolveOk(f) ==
    /\ gpc[f] = "resolve"
    /\ \E body \in Bodies :
         currentIP' = [currentIP EXCEPT ![f] = getCurrentIP(body)]
    /\ resolves' = [resolves EXCEPT ![f] = Append(@, "ok")]
    /\ gpc' = [gpc EXCEPT ![f] = "spawn"]
    /\ UNCHANGED <<envVars, schedVars, pureVars, files, files0, runVars, spawned, taskVars>>

\* One iteration of "for i := range config.records": start a goroutine.
\* The goroutine works on config.records[i] for the i of its own iteration
\* (per-iteration loop variables, Go 1.22 and later).
SpawnTask(f) ==
    /\ gpc[f] = "spawn"
    /\ spawned[f] < Len(Records(f))
    /\ spawned' = [spawned EXCEPT ![f] = @ + 1]
    /\ tpc' = [tpc EXCEPT ![<<f, spawned[f] + 1>>] = "read"]
    /\ UNCHANGED <<envVars, schedVars, pureVars, files, files0, runVars, gpc, currentIP, resolves,
                   cachedIP, trace>>

\* Variant: the group returns after the loop without wg.Wait().
GroupWait_NoWait(f) ==
    /\ gpc[f] = "spawn"
    /\ spawned[f] = Len(Records(f))
    /\ gpc' = [gpc EXCEPT ![f] = "done"]
    /\ UNCHANGED <<envVars, schedVars, pureVars, files, files0, runVars, currentIP, resolves,
                   spawned, taskVars>>

\* wg.Wait() returns once every goroutine has called wg.Done().
GroupWait(f) ==
    /\ gpc[f] = "spawn"
    /\ spawned[f] = Len(Records(f))
    /\ \A t \in TasksOf(f) : tpc[t] = "done"
    /\ gpc' = [gpc EXCEPT ![f] = "done"]
    /\ UNCHANGED <<envVars, schedVars, pureVars, files, files0, runVars, currentIP, resolves,
                   spawned, taskVars>>

\* ------------------------------------------------------------------------
\* syncRecord
\* ------------------------------------------------------------------------
\* Variant: an error of readCachedIP ends the task.
TaskReadCache_AbortOnErr(t) ==
    /\ tpc[t] = "read"
    /\ \E ioErr \in BOOLEAN :
         /\ ioErr => baseCachePath # ""
         /\ LET r == readCachedIP(baseCachePath, FileOf(t), files, ioErr) IN
              /\ cachedIP' = [cachedIP EXCEPT ![t] = r.val]
              /\ trace' = [trace EXCEPT ![t] =
                             IF baseCachePath = "" THEN @
                             ELSE Append(@, ReadEvent(~r.err))]
              /\ tpc' = [tpc EXCEPT ![t] =
                           IF r.err \/ r.val = currentIP[t[1]]
                           THEN "done" ELSE "update"]
    /\ UNCHANGED <<envVars, schedVars, pureVars, files, files0, runVars, groupVars>>

\* Variant: the comparison with currentIP is missing, the update is always
\* made.
TaskReadCache_NoSkip(t) ==
    /\ tpc[t] = "read"
    /\ \E ioErr \in BOOLEAN :
         /\ ioErr => baseCachePath # ""
         /\ LET r == readCachedIP(baseCachePath, FileOf(t), files, ioErr) IN
              /\ cachedIP' = [cachedIP EXCEPT ![t] = r.val]
              /\ trace' = [trace EXCEPT ![t] =
                             IF baseCachePath = "" THEN @
                             ELSE Append(@, ReadEvent(~r.err))]
              /\ tpc' = [tpc EXCEPT ![t] = "update"]
    /\ UNCHANGED <<envVars, schedVars, pureVars, files, files0, runVars, groupVars>>

\* generateCacheFilename, readCachedIP and the comparison with currentIP.
TaskReadCache(t) ==
    /\ tpc[t] = "read"
    /\ \E ioErr \in BOOLEAN :
         /\ ioErr => baseCachePath # ""
         /\ LET r == readCachedIP(baseCachePath, FileOf(t), files, ioErr) IN
              /\ cachedIP' = [cachedIP EXCEPT ![t] = r.val]
              /\ trace' = [trace EXCEPT ![t] =
                             IF baseCachePath = "" THEN @
                             ELSE Append(@, ReadEvent(~r.err))]
              /\ tpc' = [tpc EXCEPT ![t] =
                           IF r.val = currentIP[t[1]] THEN "done" ELSE "update"]
    /\ UNCHANGED <<envVars, schedVars, pureVars, files, files0, runVars, groupVars>>

\* Variant: a failed update ends the sibling tasks of the group as well.
TaskUpdate_AbortsSiblings(t) ==
    /\ tpc[t] = "update"
    /\ \E ok \in BOOLEAN :
         /\ trace' = [trace EXCEPT ![t] = Append(@,
                PutEvent(updateRequest(RecordOf(t), t[1], currentIP[t[1]]), ok))]
         /\ tpc' = IF ok THEN [tpc EXCEPT ![t] = "cache"]
                   ELSE [u \in TaskIds |->
                           IF u[1] = t[1] /\ tpc[u] # "none" THEN "done"
                           ELSE tpc[u]]
    /\ UNCHANGED <<envVars, schedVars, pureVars, files, files0, runVars,
                   groupVars, cachedIP>>

\* Variant: a failed update is tried again.
TaskUpdate_Retry(t) ==
    /\ tpc[t] = "update"
    /\ \E ok \in BOOLEAN :
         /\ trace' = [trace EXCEPT ![t] = Append(@,
                PutEvent(updateRequest(RecordOf(t), t[1], currentIP[t[1]]), ok))]
         /\ tpc' = [tpc EXCEPT ![t] = IF ok THEN "cache" ELSE "update"]
    /\ UNCHANGED <<envVars, schedVars, pureVars, files, files0, runVars,
                   groupVars, cachedIP>>

\* Variant: one address variable is shared by the two groups.
TaskUpdate_SharedAddress(t) ==
    /\ tpc[t] = "update"
    /\ \E ok \in BOOLEAN :
         /\ trace' = [trace EXCEPT ![t] = Append(@,
                PutEvent(updateRequest(RecordOf(t), t[1], currentIP["A"]), ok))]
         /\ tpc' = [tpc EXCEPT ![t] = IF ok THEN "cache" ELSE "done"]
    /\ UNCHANGED <<envVars, schedVars, pureVars, files, files0, runVars,
                   groupVars, cachedIP>>

\* Variant: the error of updateCloudflareRecord is logged but the success
\* branch runs all the same.
TaskUpdate_IgnoreErr(t) ==
    /\ tpc[t] = "update"
    /\ \E ok \in BOOLEAN :
         /\ trace' = [trace EXCEPT ![t] = Append(@,
                PutEvent(updateRequest(RecordOf(t), t[1], currentIP[t[1]]), ok))]
         /\ tpc' = [tpc EXCEPT ![t] = "cache"]
    /\ UNCHANGED <<envVars, schedVars, pureVars, files, files0, runVars, groupVars, cachedIP>>

\* A webhook request as the README describes it, in a trace
WebhookEvent(url, ok) ==
    [op |-> "webhook", ok |-> ok, content |-> <<url>>, req |-> NoRequest]

\* Variant: a webhook request is issued after a failed update.
TaskUpdate_NotifyOnFailure(t) ==
    /\ tpc[t] = "update"
    /\ \E ok \in BOOLEAN :
         /\ trace' = [trace EXCEPT ![t] =
                IF ok
                THEN Append(@, PutEvent(updateRequest(RecordOf(t), t[1],
                                                      currentIP[t[1]]), ok))
                ELSE Append(Append(@, PutEvent(updateRequest(RecordOf(t), t[1],
                                                      currentIP[t[1]]), ok)),
                            WebhookEvent("https://hook.example/a1", FALSE))]
         /\ tpc' = [tpc EXCEPT ![t] = IF ok THEN "cache" ELSE "done"]
    /\ UNCHANGED <<envVars, schedVars, pureVars, files, files0, runVars, groupVars, cachedIP>>

\* Variant: the cache is written before the result of the update is looked
\* at.
TaskUpdate_CacheFirst(t) ==
    /\ tpc[t] = "update"
    /\ \E ok \in BOOLEAN :
         /\ trace' = [trace EXCEPT ![t] = Append(@,
                PutEvent(updateRequest(RecordOf(t), t[1], currentIP[t[1]]), ok))]
         /\ files' = IF baseCachePath # ""
                     THEN [files EXCEPT ![FileOf(t)] = File(currentIP[t[1]])]
                     ELSE files
         /\ tpc' = [tpc EXCEPT ![t] = IF ok THEN "cache" ELSE "done"]
    /\ UNCHANGED <<envVars, schedVars, pureVars, files0, runVars, groupVars, cachedIP>>

\* updateCloudflareRecord and the branch on its error.
TaskUpdate(t) ==
    /\ tpc[t] = "update"
    /\ \E ok \in BOOLEAN :
         /\ trace' = [trace EXCEPT ![t] = Append(@,
                PutEvent(updateRequest(RecordOf(t), t[1], currentIP[t[1]]), ok))]
         /\ tpc' = [tpc EXCEPT ![t] = IF ok THEN "cache" ELSE "done"]
    /\ UNCHANGED <<envVars, schedVars, pureVars, files, files0, runVars, groupVars, cachedIP>>

\* Variant: writeCachedIP is called without the test of baseCachePath.
TaskCache_NoGate(t) ==
    /\ tpc[t] = "cache"
    /\ \E outcome \in OpenOutcomes :
         LET w == writeCachedIP(baseCachePath, FileOf(t), files, outcome) IN
           /\ files' = w.fs
           /\ IF w.err
              THEN /\ trace' = [trace EXCEPT ![t] =
                                  Append(@, WriteEvent(currentIP[t[1]], FALSE))]
                   /\ tpc' = [tpc EXCEPT ![t] = "done"]
              ELSE /\ trace' = trace
                   /\ tpc' = [tpc EXCEPT ![t] = "write"]
    /\ UNCHANGED <<envVars, schedVars, pureVars, files0, runVars, groupVars,
                   cachedIP>>

\* if baseCachePath != "" { writeCachedIP(...) } else { log }, up to the
\* open of the cache file; without a cache path, or when the open fails,
\* syncRecord logs and returns.
TaskCache(t) ==
    /\ tpc[t] = "cache"
    /\ IF baseCachePath # ""
       THEN \E outcome \in OpenOutcomes :
              LET w == writeCachedIP(baseCachePath, FileOf(t), files, outcome) IN
                /\ files' = w.fs
                /\ IF w.err
                   THEN /\ trace' = [trace EXCEPT ![t] =
                                  Append(@, WriteEvent(currentIP[t[1]], FALSE))]
                        /\ tpc' = [tpc EXCEPT ![t] = "done"]
                   ELSE /\ trace' = trace
                        /\ tpc' = [tpc EXCEPT ![t] = "write"]
       ELSE /\ UNCHANGED <<files, trace>>
            /\ tpc' = [tpc EXCEPT ![t] = "done"]
    /\ UNCHANGED <<envVars, schedVars, pureVars, files0, runVars, groupVars, cachedIP>>

\* Variant: the old cached address is written back instead of currentIP.
TaskWrite_WritesOld(t) ==
    /\ tpc[t] = "write"
    /\ \E outcome \in WriteOutcomes :
         LET w == writeFile(FileOf(t), cachedIP[t], files, outcome) IN
           /\ files' = w.fs
           /\ trace' = [trace EXCEPT ![t] =
                          Append(@, WriteEvent(cachedIP[t], ~w.err))]
    /\ tpc' = [tpc EXCEPT ![t] = "done"]
    /\ UNCHANGED <<envVars, schedVars, pureVars, files0, runVars, groupVars, cachedIP>>

\* The write and close of the cache file, the log of the outcome and the
\* return of syncRecord.
TaskWrite(t) ==
    /\ tpc[t] = "write"
    /\ \E outcome \in WriteOutcomes :
         LET w == writeFile(FileOf(t), currentIP[t[1]], files, outcome) IN
           /\ files' = w.fs
           /\ trace' = [trace EXCEPT ![t] =
                          Append(@, WriteEvent(currentIP[t[1]], ~w.err))]
    /\ tpc' = [tpc EXCEPT ![t] = "done"]
    /\ UNCHANGED <<envVars, schedVars, pureVars, files0, runVars, groupVars, cachedIP>>

\* ------------------------------------------------------------------------
\* Specification
\* ------------------------------------------------------------------------
Next ==
    \/ RunLoad
    \/ RunSpawnA
    \/ RunSpawnAAAA
    \/ RunWait
    \/ \E f \in Families : ResolveFail(f)
    \/ \E f \in Families : ResolveOk(f)
    \/ \E f \in Families : SpawnTask(f)
    \/ \E f \in Families : GroupWait(f)
    \/ \E t \in TaskIds : TaskReadCache(t)
    \/ \E t \in TaskIds : TaskUpdate(t)
    \/ \E t \in TaskIds : TaskCache(t)
    \/ \E t \in TaskIds : TaskWrite(t)

Spec == Init /\ [][Next]_vars

\* ------------------------------------------------------------------------
\* Run after run: the external scheduler starts the process again, with the
\* same environment and the cache directory the earlier run left.
\* ------------------------------------------------------------------------
StartRun ==
    /\ mainPC = "exit"
    /\ runNo < MaxRuns
    /\ runNo' = runNo + 1
    /\ prev' = [t \in TaskIds |->
                  [putOK |-> PutOK(t), putFailed |-> PutFailed(t),
                   writeOK |-> WriteOK(t), readFailed |-> ReadFailed(t),
                   ip |-> currentIP[t[1]],
                   file0 |-> IF t \in Tasks THEN files0[FileOf(t)] ELSE NoFile,
                   fails |-> IF ~PutFailed(t) THEN 0
                             ELSE IF prev[t].ip = currentIP[t[1]]
                                  THEN prev[t].fails + 1 ELSE 1]]
    /\ files0' = files
    /\ mainPC' = "load"
    /\ result' = "none"
    /\ configuration' = EmptyConfiguration
    /\ baseCachePath' = ""
    /\ gpc' = [f \in Families |-> "none"]
    /\ currentIP' = [f \in Families |-> <<>>]
    /\ resolves' = [f \in Families |-> <<>>]
    /\ spawned' = [f \in Families |-> 0]
    /\ tpc' = [t \in TaskIds |-> "none"]
    /\ cachedIP' = [t \in TaskIds |-> <<>>]
    /\ trace' = [t \in TaskIds |-> <<>>]
    /\ UNCHANGED <<envVars, pureVars, files>>

\* Configurations of the runs: one record, or two records whose cache keys
\* coincide ("a.b" with identifier "i1" and "a" with identifier "b_i1" both
\* give cached_ip_A_a_b_i1.txt)
RecA3 == [Name |-> <<"a">>, APIToken |-> "tokA3", ZoneID |-> "zone3",
          RecordID |-> <<"b","_","i","1">>]
JsonA3 == JsonRecord(RecA3, <<>>)

RunsConfigFiles ==
    {[status |-> "json", A |-> <<JsonA1>>, AAAA |-> <<>>],
     [status |-> "json", A |-> <<>>, AAAA |-> <<Json62>>],
     [status |-> "json", A |-> <<JsonA1, JsonA3>>, AAAA |-> <<>>]}

InitRuns ==
    /\ PureOff
    /\ runNo = 1
    /\ prev = [t \in TaskIds |-> NoPrev]
    /\ configFile \in RunsConfigFiles
    /\ cachePathEnv \in CachePaths
    /\ files \in [FileNames -> InitContents]
    /\ \A n \in FileNames :
         (cachePathEnv = "" \/ n \notin ConfiguredFiles(configFile))
            => files[n] = NoFile
    /\ files0 = files
    /\ mainPC = "load"
    /\ result = "none"
    /\ configuration = EmptyConfiguration
    /\ baseCachePath = ""
    /\ gpc = [f \in Families |-> "none"]
    /\ currentIP = [f \in Families |-> <<>>]
    /\ resolves = [f \in Families |-> <<>>]
    /\ spawned = [f \in Families |-> 0]
    /\ tpc = [t \in TaskIds |-> "none"]
    /\ cachedIP = [t \in TaskIds |-> <<>>]
    /\ trace = [t \in TaskIds |-> <<>>]

NextRuns == Next \/ StartRun

SpecRuns == InitRuns /\ [][NextRuns]_vars

\* ------------------------------------------------------------------------
\* One run with a configuration of two records whose cache keys coincide:
\* "a.b" with identifier "i1" and "a" with identifier "b_i1" both give
\* cached_ip_A_a_b_i1.txt.
\* ------------------------------------------------------------------------
SharedConfigFiles ==
    {[status |-> "json", A |-> <<JsonA1, JsonA3>>, AAAA |-> <<>>],
     [status |-> "json", A |-> <<JsonA1, JsonA2>>, AAAA |-> <<>>],
     [status |-> "json", A |-> <<JsonA1>>, AAAA |-> <<Json61>>]}

InitShared ==
    /\ PureOff
    /\ runNo = 1
    /\ prev = [t \in TaskIds |-> NoPrev]
    /\ configFile \in SharedConfigFiles
    /\ cachePathEnv \in CachePaths
    /\ files \in [FileNames -> InitContents]
    /\ \A n \in FileNames :
         (cachePathEnv = "" \/ n \notin ConfiguredFiles(configFile))
            => files[n] = NoFile
    /\ files0 = files
    /\ mainPC = "load"
    /\ result = "none"
    /\ configuration = EmptyConfiguration
    /\ baseCachePath = ""
    /\ gpc = [f \in Families |-> "none"]
    /\ currentIP = [f \in Families |-> <<>>]
    /\ resolves = [f \in Families |-> <<>>]
    /\ spawned = [f \in Families |-> 0]
    /\ tpc = [t \in TaskIds |-> "none"]
    /\ cachedIP = [t \in TaskIds |-> <<>>]
    /\ trace = [t \in TaskIds |-> <<>>]

SpecShared == InitShared /\ [][Next]_vars

TypeOK ==
    /\ mainPC \in {"load", "spawnA", "spawnAAAA", "wait", "exit"}
    /\ result \in {"none", "ok", "error"}
    /\ \A f \in Families : gpc[f] \in {"none", "resolve", "spawn", "failed", "done"}
    /\ \A t \in TaskIds :
         tpc[t] \in {"none", "read", "update", "cache", "write", "done"}

\* ------------------------------------------------------------------------
\* C1: a task whose cached address, as read and trimmed, equals the address
\* resolved in this run sends no provider update, attempts no notification
\* and leaves its cache file byte-identical.
\* ------------------------------------------------------------------------
C1_CacheHitIsNoOp ==
    \A t \in Tasks :
        (Compared(t) /\ cachedIP[t] = currentIP[t[1]]) =>
            /\ tpc[t] = "done"
            /\ Events(t, "put") = {}
            /\ Events(t, "write") = {}
            /\ ~Attempted(t)
            /\ OwnFile(t) => files[FileOf(t)] = files0[FileOf(t)]

C1_Witness ==
    \E t \in Tasks :
        /\ tpc[t] = "done"
        /\ cachedIP[t] = currentIP[t[1]]
        /\ files0[FileOf(t)] = File(<<"1", "\n">>)
        /\ files[FileOf(t)] = File(<<"1", "\n">>)
        /\ Events(t, "read") # {}

\* ------------------------------------------------------------------------
\* C2: within a task, every cache write and every notification attempt comes
\* after a successful provider update made by that same task in this run.
\* ------------------------------------------------------------------------
C2_WriteAndNotifyAfterSuccess ==
    \A t \in TaskIds :
        /\ \A i \in Events(t, "write") :
              \E j \in Events(t, "put") : j < i /\ trace[t][j].ok
        /\ \A i \in Events(t, "webhook") :
              \E j \in Events(t, "put") : j < i /\ trace[t][j].ok
        /\ tpc[t] \in {"cache", "write"} => PutOK(t)

C2_Witness ==
    \E t \in Tasks :
        /\ tpc[t] = "done"
        /\ WriteOK(t)
        /\ PutOK(t)
        /\ configFile[t[1]][t[2]].webhooks # <<>>

\* ------------------------------------------------------------------------
\* C3 as stated: after a run, a record's cache content equals the resolved
\* address if and only if its provider update returned success in that run.
\* ------------------------------------------------------------------------
C3_Original ==
    RunOver =>
        \A t \in Tasks :
            gpc[t[1]] = "done" =>
                (files[FileOf(t)] = File(currentIP[t[1]]) <=> PutOK(t))

\* C3 as amended: after a run, for a record that shares its cache file with
\* no other record: if the provider update returned success and
\* the cache write that followed it succeeded, the cache content equals the
\* resolved address; and if the cache content equals the resolved address,
\* then the update returned success in that run or the cache already held
\* exactly that content before the run.
C3_WriteOnSuccessOnly ==
    RunOver =>
        \A t \in Tasks :
            (gpc[t[1]] = "done" /\ OwnFile(t)) =>
                /\ (PutOK(t) /\ WriteOK(t))
                      => files[FileOf(t)] = File(currentIP[t[1]])
                /\ files[FileOf(t)] = File(currentIP[t[1]])
                      => (PutOK(t) \/ files0[FileOf(t)] = File(currentIP[t[1]]))

C3_Witness ==
    /\ RunOver
    /\ \E t \in Tasks :
          /\ PutOK(t) /\ WriteOK(t)
          /\ files0[FileOf(t)] # files[FileOf(t)]
          /\ files[FileOf(t)] = File(currentIP[t[1]])
    /\ \E t \in Tasks :
          /\ Events(t, "put") = {}
          /\ files[FileOf(t)] = File(currentIP[t[1]])

\* ------------------------------------------------------------------------
\* C4: when the provider update of a record fails, its cache entry stays as
\* it was before the run (same content, or still absent) and the task ends
\* with the failed call as its last action.
\* ------------------------------------------------------------------------
C4_FailedUpdateLeavesCache ==
    \A t \in Tasks :
        PutFailed(t) =>
            /\ tpc[t] = "done"
            /\ trace[t][Len(trace[t])].op = "put"
            /\ Events(t, "write") = {}
            /\ Events(t, "webhook") = {}
            /\ OwnFile(t) => files[FileOf(t)] = files0[FileOf(t)]

C4_Witness ==
    /\ RunOver
    /\ \E t \in Tasks : PutFailed(t) /\ files0[FileOf(t)].exists
    /\ \E t \in Tasks : PutFailed(t) /\ ~files[FileOf(t)].exists
                          /\ baseCachePath # ""

\* ------------------------------------------------------------------------
\* C5: for a record with at least one endpoint, once its task has ended,
\* notifications were attempted if and only if its provider update
\* succeeded, whether the cache write succeeded, failed or was disabled.
\* ------------------------------------------------------------------------
C5_NotifyIffUpdated ==
    \A t \in Tasks :
        (tpc[t] = "done" /\ configFile[t[1]][t[2]].webhooks # <<>>) =>
            (Attempted(t) <=> PutOK(t))

\* ------------------------------------------------------------------------
\* C6: a record whose provider update failed gets no webhook request at all,
\* whatever endpoints it has: the failed call is the last request its task
\* makes.
\* ------------------------------------------------------------------------
C6_NoWebhookAfterFailure ==
    \A t \in Tasks :
        \A k \in Events(t, "put") :
            ~trace[t][k].ok =>
                /\ Events(t, "webhook") = {}
                /\ k = Len(trace[t])

C6_Witness ==
    \E t \in Tasks :
        /\ tpc[t] = "done"
        /\ PutFailed(t)
        /\ Len(configFile[t[1]][t[2]].webhooks) = 2

\* ------------------------------------------------------------------------
\* C7: an endpoint whose every delivery fails gets exactly 3 attempts for
\* one successful update, and none after that.
\* ------------------------------------------------------------------------
DeliveriesTo(t, url) ==
    {k \in Events(t, "webhook") : trace[t][k].content = <<url>>}

C7_ThreeAttempts ==
    \A t \in Tasks :
        (tpc[t] = "done" /\ PutOK(t)) =>
            LET urls == configFile[t[1]][t[2]].webhooks IN
              \A e \in 1..Len(urls) :
                  /\ Cardinality(DeliveriesTo(t, urls[e])) <= 3
                  /\ (\A k \in DeliveriesTo(t, urls[e]) : ~trace[t][k].ok)
                        => Cardinality(DeliveriesTo(t, urls[e])) = 3

\* ------------------------------------------------------------------------
\* C8: when address resolution fails for a family, the whole group is
\* aborted: no task is spawned and no cache read, cache write or provider
\* update is made for any record of that family.
\* ------------------------------------------------------------------------
C8_ResolveFailureAbortsGroup ==
    \A f \in Families :
        ResolveFailed(f) =>
            /\ gpc[f] = "failed"
            /\ spawned[f] = 0
            /\ \A t \in TaskIds :
                  t[1] = f => /\ tpc[t] = "none"
                              /\ trace[t] = <<>>
            /\ \A t \in TasksOf(f) :
                  OwnFile(t) => files[FileOf(t)] = files0[FileOf(t)]

C8_Witness ==
    /\ RunOver
    /\ \E f \in Families :
          /\ gpc[f] = "failed"
          /\ Len(Records(f)) > 0
          /\ resolves[f] = <<"err">>

\* ------------------------------------------------------------------------
\* C9: the A and AAAA groups are independent: no step that changes anything
\* of one family (its group, its tasks, their calls, its cache entries),
\* a resolver or record failure included, changes anything of the other.
\* ------------------------------------------------------------------------
FamilyState(f) ==
    <<gpc[f], currentIP[f], resolves[f], spawned[f],
      [i \in 1..MaxRecords |->
          <<tpc[<<f, i>>], cachedIP[<<f, i>>], trace[<<f, i>>]>>],
      [i \in 1..Len(configFile[f]) |->
          files[generateCacheFilename(Unmarshal(configFile[f][i]), recordType(f))]]>>

C9_GroupsIndependent ==
    [][\A f \in Families : \A g \in Families \ {f} :
          (FamilyState(f)' # FamilyState(f)) => (FamilyState(g)' = FamilyState(g))]_vars

C9_Witness ==
    /\ RunOver
    /\ gpc["AAAA"] = "failed"
    /\ Len(Records("AAAA")) > 0
    /\ gpc["A"] = "done"
    /\ \E t \in TasksOf("A") :
          PutOK(t) /\ WriteOK(t) /\ files[FileOf(t)] = File(currentIP["A"])

\* ------------------------------------------------------------------------
\* C10: with caching disabled (empty base path), after a run every record
\* of a group whose address resolution succeeded has received exactly one
\* provider update call, whatever address was resolved.
\* ------------------------------------------------------------------------
C10_UpdateEveryRunWithoutCache ==
    (RunOver /\ baseCachePath = "") =>
        \A f \in Families :
            gpc[f] = "done" =>
                \A t \in TasksOf(f) : Cardinality(Events(t, "put")) = 1

\* ------------------------------------------------------------------------
\* C11 as stated: with a cache directory, after a run in which a record's
\* provider update and cache write both succeeded, the following run, when
\* it resolves the same address, sends no provider update for that record.
\* ------------------------------------------------------------------------
ReadOK(t) == \E i \in Events(t, "read") : trace[t][i].ok

C11_Original ==
    \A t \in Tasks :
        (/\ runNo > 1 /\ baseCachePath # ""
         /\ prev[t].putOK /\ prev[t].writeOK
         /\ currentIP[t[1]] = prev[t].ip
         /\ Compared(t))
        => Events(t, "put") = {}

\* C11 as amended: ... sends no provider update for that record, provided
\* the record shares its cache file with no other record and its read of the
\* cache file does not fail in that following run.
C11_NoUpdateAfterCachedRun ==
    \A t \in Tasks :
        (/\ runNo > 1 /\ baseCachePath # ""
         /\ OwnFile(t)
         /\ prev[t].putOK /\ prev[t].writeOK
         /\ currentIP[t[1]] = prev[t].ip
         /\ Compared(t) /\ ReadOK(t))
        => /\ cachedIP[t] = currentIP[t[1]]
           /\ tpc[t] = "done"
           /\ Events(t, "put") = {}

C11_Witness ==
    \E t \in Tasks :
        /\ runNo = 2 /\ RunOver
        /\ OwnFile(t)
        /\ prev[t].putOK /\ prev[t].writeOK
        /\ prev[t].ip = <<"2">>
        /\ currentIP[t[1]] = <<"2">>
        /\ ReadOK(t)
        /\ Events(t, "put") = {}
        /\ files[FileOf(t)] = File(<<"2">>)

\* ------------------------------------------------------------------------
\* C12: every run whose configuration loads finishes, as long as every
\* enabled step is eventually taken (every external call returns), and it
\* finishes with the success result whatever failed during the run.
\* ------------------------------------------------------------------------
\* The scheduler runs every goroutine that can take a step.
FairSpec == Spec /\ WF_vars(Next)

Loads == ~loadDNSConfiguration(configFile).err
C12_RunFinishesWithSuccess ==
    /\ [](Loads /\ mainPC = "exit" => result = "ok")
    /\ (Loads /\ mainPC = "load") ~> RunOver

C12_Witness ==
    /\ RunOver
    /\ \E f \in Families : ResolveFailed(f)
    /\ \E t \in Tasks : PutFailed(t) /\ ~ReadOK(t) /\ Events(t, "read") # {}

\* ------------------------------------------------------------------------
\* C13: when the configuration cannot be loaded or both record lists are
\* empty, the run ends with an error before anything else happens: no
\* resolver request, no provider update, no cache read and no cache write.
\* ------------------------------------------------------------------------
ConfigBad ==
    \/ configFile.status # "json"
    \/ Len(configFile.A) = 0 /\ Len(configFile.AAAA) = 0

C13_BadConfigurationFailsFirst ==
    ConfigBad =>
        /\ mainPC \in {"load", "exit"}
        /\ mainPC = "exit" => result = "error"
        /\ \A f \in Families : gpc[f] = "none" /\ resolves[f] = <<>>
        /\ \A t \in TaskIds : tpc[t] = "none" /\ trace[t] = <<>>
        /\ files = files0

C13_Witness ==
    /\ configFile.status = "json"
    /\ Len(configFile.A) = 0 /\ Len(configFile.AAAA) = 0
    /\ mainPC = "exit"
    /\ result = "error"

\* ------------------------------------------------------------------------
\* The pure functions on their own: sanitizeString
\* ------------------------------------------------------------------------
\* The process is not running.
MainIdle ==
    /\ runNo = 1
    /\ prev = [t \in TaskIds |-> NoPrev]
    /\ configFile = [status |-> "unset", A |-> <<>>, AAAA |-> <<>>]
    /\ cachePathEnv = ""
    /\ files = [n \in FileNames |-> NoFile]
    /\ files0 = files
    /\ mainPC = "exit"
    /\ result = "none"
    /\ configuration = EmptyConfiguration
    /\ baseCachePath = ""
    /\ gpc = [f \in Families |-> "none"]
    /\ currentIP = [f \in Families |-> <<>>]
    /\ resolves = [f \in Families |-> <<>>]
    /\ spawned = [f \in Families |-> 0]
    /\ tpc = [t \in TaskIds |-> "none"]
    /\ cachedIP = [t \in TaskIds |-> <<>>]
    /\ trace = [t \in TaskIds |-> <<>>]

mainVars == <<envVars, schedVars, files, files0, runVars, groupVars, taskVars>>

\* Runes of the inputs: retained ones, the underscore, other ASCII and a
\* rune outside ASCII ("U+E9" stands for the one rune U+00E9).
SanChars == {"a", "Z", "7", "-", "_", ".", "U+E9"}
SanInputs == UNION {[1..n -> SanChars] : n \in 0..MaxLen}

InitSan ==
    /\ MainIdle
    /\ purePC = "san"
    /\ sanIn \in SanInputs
    /\ sanOut = <<>> /\ sanAgain = <<>>
    /\ keyA = NoKey /\ keyB = NoKey
    /\ fileA = <<>> /\ fileB = <<>>

\* safeName := sanitizeString(record.Name)
Sanitize ==
    /\ purePC = "san"
    /\ sanOut' = sanitizeString(sanIn)
    /\ purePC' = "again"
    /\ UNCHANGED <<mainVars, sanIn, sanAgain, keyA, keyB, fileA, fileB>>

\* sanitizeString applied to its own result
SanitizeAgain ==
    /\ purePC = "again"
    /\ sanAgain' = sanitizeString(sanOut)
    /\ purePC' = "done"
    /\ UNCHANGED <<mainVars, sanIn, sanOut, keyA, keyB, fileA, fileB>>

NextSan == Sanitize \/ SanitizeAgain

SpecSan == InitSan /\ [][NextSan]_vars

\* ------------------------------------------------------------------------
\* C14: the output of the sanitizer has only ASCII letters, digits, hyphens
\* and underscores, keeps the retained characters in order, has exactly one
\* underscore for each maximal run of other characters and never two
\* underscores in a row.
\* ------------------------------------------------------------------------
\* The letters, digits and hyphens among the runes of the inputs
KeptRunes == {"a", "Z", "7", "-"}

\* The input with every maximal run of other runes replaced by one "_"
Collapsed(in) ==
    LET idx == [i \in 1..Len(in) |-> i]
        First(i) == in[i] \in KeptRunes \/ i = 1 \/ in[i - 1] \in KeptRunes
        sel == SelectSeq(idx, First)
    IN  [k \in 1..Len(sel) |->
            IF in[sel[k]] \in KeptRunes THEN in[sel[k]] ELSE "_"]

C14_SanitizerOutput ==
    purePC \in {"again", "done"} =>
        /\ \A i \in 1..Len(sanOut) : sanOut[i] \in KeptRunes \cup {"_"}
        /\ \A i \in 1..(Len(sanOut) - 1) :
              ~(sanOut[i] = "_" /\ sanOut[i + 1] = "_")
        /\ sanOut = Collapsed(sanIn)

C14_Witness ==
    /\ purePC = "again"
    /\ sanIn = <<"a", ".", "U+E9", "Z">>
    /\ sanOut = <<"a", "_", "Z">>

\* ------------------------------------------------------------------------
\* C15: the sanitizer is idempotent: sanitizing its result gives the result.
\* ------------------------------------------------------------------------
C15_SanitizerIdempotent ==
    purePC = "done" => sanAgain = sanOut

C15_Witness ==
    /\ purePC = "done"
    /\ sanIn = <<".", "_", ".", "a">>
    /\ sanOut = <<"_", "a">>
    /\ sanAgain = <<"_", "a">>

\* ------------------------------------------------------------------------
\* The pure functions on their own: generateCacheFilename for two tasks of
\* one run
\* ------------------------------------------------------------------------
KeyNames == UNION {[1..n -> {"a", ".", "A"}] : n \in 0..MaxKeyLen}
KeyIds == UNION {[1..n -> {"c", "_"}] : n \in 1..MaxKeyLen}
KeyRecords == [family : Families, Name : KeyNames, RecordID : KeyIds]

InitKey ==
    /\ MainIdle
    /\ purePC = "key"
    /\ keyA \in KeyRecords
    /\ keyB \in KeyRecords
    /\ fileA = <<>> /\ fileB = <<>>
    /\ sanIn = <<>> /\ sanOut = <<>> /\ sanAgain = <<>>

\* cacheFileName := generateCacheFilename(record, recordType), in both tasks
GenerateNames ==
    /\ purePC = "key"
    /\ fileA' = generateCacheFilename(keyA, recordType(keyA.family))
    /\ fileB' = generateCacheFilename(keyB, recordType(keyB.family))
    /\ purePC' = "done"
    /\ UNCHANGED <<mainVars, sanIn, sanOut, sanAgain, keyA, keyB>>

NextKey == GenerateNames

SpecKey == InitKey /\ [][NextKey]_vars

\* ------------------------------------------------------------------------
\* C16 as stated: the cache file names of any two tasks of a run differ,
\* for all names and record identifiers.
\* ------------------------------------------------------------------------
C16_Original ==
    purePC = "done" => fileA # fileB

\* C16 as amended: the cache file names of any two tasks of a run differ
\* for every configuration whose record identifiers are pairwise distinct
\* within each family and contain no underscore.
NoUnderscore(id) == \A i \in 1..Len(id) : id[i] # "_"

C16_DistinctKeys ==
    (/\ purePC = "done"
     /\ NoUnderscore(keyA.RecordID) /\ NoUnderscore(keyB.RecordID)
     /\ keyA.family = keyB.family => keyA.RecordID # keyB.RecordID)
    => fileA # fileB

C16_Witness ==
    /\ purePC = "done"
    /\ keyA.family = keyB.family
    /\ keyA.Name = <<"a", ".">> /\ keyB.Name = <<"a", ".">>
    /\ keyA.RecordID = <<"c">> /\ keyB.RecordID = <<"c", "c">>
    /\ fileA # fileB

\* ------------------------------------------------------------------------
\* C17: in a group whose address resolution succeeded every configured
\* record is processed by exactly one task, none is skipped or processed
\* twice, and each record gets at most one provider update request in the
\* run: a failed attempt is not retried.
\* ------------------------------------------------------------------------
\* The update requests of a family that name the record at index i
PutsFor(f, i) ==
    {<<t, k>> \in TaskIds \X (1..2) :
        /\ t[1] = f
        /\ k \in Events(t, "put")
        /\ trace[t][k].req.id = configFile[f][i].record_id
        /\ trace[t][k].req.zone = configFile[f][i].zone_id}

C17_OneTaskOnePut ==
    /\ \A t \in TaskIds :
          /\ Len(trace[t]) <= 3
          /\ Cardinality(Events(t, "put")) <= 1
          /\ t[2] > Len(configFile[t[1]]) => tpc[t] = "none"
          /\ PutFailed(t) => tpc[t] = "done"
    /\ \A f \in Families :
          /\ spawned[f] <= Len(configFile[f])
          /\ \A i \in 1..Len(configFile[f]) :
                /\ (i <= spawned[f]) <=> (tpc[<<f, i>>] # "none")
                /\ Cardinality(PutsFor(f, i)) <= 1
                /\ gpc[f] = "done" => tpc[<<f, i>>] = "done"

C17_Witness ==
    /\ RunOver
    /\ gpc["A"] = "done"
    /\ Len(configFile["A"]) = 2
    /\ PutFailed(<<"A", 1>>)
    /\ PutOK(<<"A", 2>>)
    /\ Cardinality(PutsFor("A", 1)) = 1
    /\ Cardinality(PutsFor("A", 2)) = 1

\* ------------------------------------------------------------------------
\* C18: writeCachedIP is never called with an empty base path, and with
\* caching disabled no cache file is created or modified.
\* ------------------------------------------------------------------------
C18_WriteGatedOnCache ==
    /\ \A t \in TaskIds : Events(t, "write") # {} => baseCachePath # ""
    /\ cachePathEnv = "" => files = files0

C18_Witness ==
    /\ RunOver
    /\ cachePathEnv = ""
    /\ baseCachePath = ""
    /\ \E t \in Tasks : PutOK(t) /\ tpc[t] = "done" /\ Events(t, "write") = {}

\* ------------------------------------------------------------------------
\* C19: every provider update request of a task names the zone, record
\* identifier, token and name of the task's own record, the record type of
\* its group and the address resolved for its own family.
\* ------------------------------------------------------------------------
C19_RequestIsOwn ==
    \A t \in Tasks :
        \A k \in Events(t, "put") :
            LET r == trace[t][k].req
                rec == configFile[t[1]][t[2]]
            IN  /\ r.zone = rec.zone_id
                /\ r.id = rec.record_id
                /\ r.token = rec.api_token
                /\ r.name = rec.name
                /\ r.type = t[1]
                /\ r.content = currentIP[t[1]]
                /\ \E i \in 1..Len(resolves[t[1]]) : resolves[t[1]][i] = "ok"

C19_Witness ==
    /\ RunOver
    /\ currentIP["A"] = <<"1">>
    /\ currentIP["AAAA"] = <<"2">>
    /\ \E k \in Events(<<"A", 1>>, "put") :
          trace[<<"A", 1>>][k].req.content = <<"1">>
    /\ \E k \in Events(<<"AAAA", 1>>, "put") :
          /\ trace[<<"AAAA", 1>>][k].req.content = <<"2">>
          /\ trace[<<"AAAA", 1>>][k].req.token = "tok61"

\* ------------------------------------------------------------------------
\* C20: a run makes exactly one resolver request for each family that has
\* a record and none for a family without records, and all tasks of a
\* family compare against and send the same resolved address.
\* ------------------------------------------------------------------------
C20_OneResolvePerFamily ==
    \A f \in Families :
        /\ Len(resolves[f]) <= 1
        /\ Len(configFile[f]) = 0 => resolves[f] = <<>>
        /\ (RunOver /\ Len(configFile[f]) > 0) => Len(resolves[f]) = 1
        /\ \A t \in TasksOf(f) :
              /\ \A k \in Events(t, "put") : trace[t][k].content = currentIP[f]
              /\ tpc[t] \notin {"none", "read", "update"} =>
                    (Events(t, "put") = {} <=> cachedIP[t] = currentIP[f])
        /\ \A t, u \in TasksOf(f) :
              \A k \in Events(t, "put") : \A l \in Events(u, "put") :
                  trace[t][k].content = trace[u][l].content

C20_Witness ==
    /\ RunOver
    /\ Len(configFile["A"]) = 2 /\ Len(configFile["AAAA"]) = 0
    /\ resolves["A"] = <<"ok">> /\ resolves["AAAA"] = <<>>
    /\ \E k \in Events(<<"A", 1>>, "put") : trace[<<"A", 1>>][k].content = <<"2">>
    /\ \E k \in Events(<<"A", 2>>, "put") : trace[<<"A", 2>>][k].content = <<"2">>

\* ------------------------------------------------------------------------
\* C21: no task outlives its join point: a group is done only when every
\* record task it started has ended, the run has finished only when both
\* groups have ended, and once the run has finished no provider call, cache
\* write or notification is made any more.
\* ------------------------------------------------------------------------
Ended(f) ==
    /\ gpc[f] \in {"none", "failed", "done"}
    /\ \A i \in 1..MaxRecords : tpc[<<f, i>>] \in {"none", "done"}
    /\ gpc[f] = "done" =>
          \A i \in 1..Len(configFile[f]) : tpc[<<f, i>>] = "done"

C21_NothingAfterJoin ==
    /\ [](\A f \in Families :
            /\ gpc[f] = "done" => Ended(f)
            /\ mainPC = "exit" => Ended(f))
    /\ [][mainPC = "exit" =>
            (trace' = trace /\ files' = files /\ tpc' = tpc)]_vars

C21_Witness ==
    /\ RunOver
    /\ gpc["A"] = "done" /\ gpc["AAAA"] = "done"
    /\ PutOK(<<"A", 1>>) /\ WriteOK(<<"A", 1>>)
    /\ PutOK(<<"AAAA", 1>>) /\ WriteOK(<<"AAAA", 1>>)

\* ------------------------------------------------------------------------
\* C22 as stated: record tasks are isolated from their siblings: for any
\* two records of a run, no step of one task (a cache read, provider update
\* or cache write, succeeding or failing) changes the position, the cached
\* value, the calls, the notifications or the cache entry of the other, nor
\* the inputs the tasks share.
\* ------------------------------------------------------------------------
TaskState(t) ==
    <<tpc[t], cachedIP[t], trace[t], files[FileOf(t)]>>

SharedInputs == <<configuration, baseCachePath, currentIP>>

C22_Original ==
    [][\A t \in Tasks : \A u \in Tasks \ {t} :
          (TaskState(u)' # TaskState(u)) =>
              (TaskState(t)' = TaskState(t) /\ SharedInputs' = SharedInputs)]_vars

\* C22 as amended: ... for any two records of a run whose cache file names
\* differ ...
C22_SiblingsIsolated ==
    [][\A t \in Tasks : \A u \in Tasks \ {t} :
          (FileOf(t) # FileOf(u) /\ TaskState(u)' # TaskState(u)) =>
              (TaskState(t)' = TaskState(t) /\ SharedInputs' = SharedInputs)]_vars

C22_Witness ==
    /\ RunOver
    /\ Len(configuration["A"]) = 2
    /\ FileOf(<<"A", 1>>) # FileOf(<<"A", 2>>)
    /\ tpc[<<"A", 2>>] = "done"
    /\ ~ReadOK(<<"A", 2>>) /\ Events(<<"A", 2>>, "read") # {}
    /\ PutFailed(<<"A", 2>>)
    /\ PutOK(<<"A", 1>>) /\ WriteOK(<<"A", 1>>)
    /\ files[FileOf(<<"A", 1>>)] = File(currentIP["A"])
    /\ files[FileOf(<<"A", 2>>)] = files0[FileOf(<<"A", 2>>)]

\* ------------------------------------------------------------------------
\* C23: a cache read that fails for another reason than a missing file does
\* not end the record's task: the task goes on with an empty cached value,
\* as for a record never cached, and makes the same decisions: it updates
\* unless the resolved address is empty too, writes the cache after a
\* successful update only, and issues no webhook request, as any task.
\* ------------------------------------------------------------------------
C23_ReadFailureIsMiss ==
    \A t \in Tasks :
        ReadFailed(t) =>
            /\ cachedIP[t] = <<>>
            /\ currentIP[t[1]] = <<>> =>
                  (tpc[t] = "done" /\ Events(t, "put") = {})
            /\ currentIP[t[1]] # <<>> =>
                  (tpc[t] = "update" \/ Cardinality(Events(t, "put")) = 1)
            /\ PutOK(t) =>
                  /\ tpc[t] \in {"cache", "write"}
                        \/ Cardinality(Events(t, "write")) = 1
                  /\ \A k \in Events(t, "write") :
                        trace[t][k].content = currentIP[t[1]]
            /\ PutFailed(t) =>
                  (tpc[t] = "done" /\ Events(t, "write") = {})
            /\ Events(t, "webhook") = {}

C23_Witness ==
    \E t \in Tasks :
        /\ RunOver
        /\ ReadFailed(t)
        /\ files0[FileOf(t)] = File(<<"1">>)
        /\ currentIP[t[1]] = <<"1">>
        /\ PutOK(t) /\ WriteOK(t)
        /\ tpc[t] = "done"

\* ------------------------------------------------------------------------
\* C24: the cache file name of an A record and the cache file name of an
\* AAAA record are never equal, whatever their names and identifiers, the
\* same name with the same identifier in both families included.
\* ------------------------------------------------------------------------
C24_FamiliesNeverCollide ==
    (purePC = "done" /\ keyA.family # keyB.family) => fileA # fileB

C24_Witness ==
    /\ purePC = "done"
    /\ keyA.family = "A" /\ keyB.family = "AAAA"
    /\ keyA.Name = <<"A", ".">> /\ keyB.Name = keyA.Name
    /\ keyA.RecordID = <<"c">> /\ keyB.RecordID = keyA.RecordID
    /\ fileA # fileB

\* ------------------------------------------------------------------------
\* C25 as stated: with a cache directory, a record whose provider update
\* failed in one run, or succeeded without a successful cache write, is
\* attempted again in the next run when that run resolves the same address.
\* ------------------------------------------------------------------------
Unfinished(p) == p.putFailed \/ (p.putOK /\ ~p.writeOK)

C25_Original ==
    \A t \in Tasks :
        (/\ runNo > 1 /\ baseCachePath # ""
         /\ Unfinished(prev[t])
         /\ currentIP[t[1]] = prev[t].ip
         /\ Compared(t))
        => (tpc[t] = "update" \/ Events(t, "put") # {})

\* C25 as amended: with a cache directory, for a record that shares its
\* cache file with no other record: a run in which the record's provider
\* update fails leaves the cache file as it found it; the next run, when it
\* resolves the same address, attempts the update again unless the value it
\* takes as cached (the trimmed content of the file, or empty when the file
\* is absent or its read fails) equals that address, and it always attempts
\* it when both runs read the cache without error.  The attempts repeat run
\* after run until a run leaves the address in the cache file, as an update
\* followed by a successful cache write does.
Retried(t) == tpc[t] = "update" \/ Events(t, "put") # {}

\* What readCachedIP gives for the cache file as the run found it
TakenAsCached(t) ==
    IF ReadOK(t) /\ files0[FileOf(t)].exists
    THEN TrimSpace(files0[FileOf(t)].data)
    ELSE <<>>

C25_RetryInNextRun ==
    \A t \in Tasks :
        (/\ runNo > 1 /\ baseCachePath # ""
         /\ OwnFile(t)
         /\ currentIP[t[1]] = prev[t].ip
         /\ Compared(t))
        => /\ prev[t].putFailed =>
                /\ files0[FileOf(t)] = prev[t].file0
                /\ (~prev[t].readFailed /\ ReadOK(t)) => Retried(t)
           /\ (prev[t].putFailed \/ prev[t].putOK) =>
                (Retried(t) <=> TakenAsCached(t) # currentIP[t[1]])
           /\ (prev[t].putOK /\ prev[t].writeOK /\ ReadOK(t)) => ~Retried(t)

C25_Witness ==
    \E t \in Tasks :
        /\ runNo = 3 /\ RunOver
        /\ baseCachePath # ""
        /\ OwnFile(t)
        /\ prev[t].fails = 2 /\ ~prev[t].readFailed
        /\ prev[t].ip = <<"2">> /\ currentIP[t[1]] = <<"2">>
        /\ ReadOK(t)
        /\ PutOK(t) /\ WriteOK(t)
        /\ files0[FileOf(t)] = File(<<"1">>)
        /\ files[FileOf(t)] = File(<<"2">>)

====
